---- MODULE Spec2Model ----
(***************************************************************************)
(* CrosstrekOBDmon, hello_world.py: an OBD-II dashboard.                   *)
(*                                                                         *)
(* Two threads share one AsyncRetroDashboard object.  The tkinter main     *)
(* thread runs process_updates (a timer callback), toggle_color (a click)  *)
(* and stop (exit_app).  A worker thread runs an asyncio event loop whose  *)
(* only task is main_async_loop; every blocking call of that task is an    *)
(* await on the default executor or on a timer.                            *)
(*                                                                         *)
(* Readings are whole numbers of the sensor's unit.  Strings are TLA+      *)
(* strings, Python tuples and lists are sequences, and an optional value   *)
(* is None (the empty sequence) or Some(v) (a one-element sequence).       *)
(***************************************************************************)
EXTENDS Integers, Sequences, FiniteSets, TLC

\* ------------------------------------------------------------- bounds

\* The poll cycle covers the first NumSensors entries of the command table.
NumSensors == 2

\* Poll cycles the worker may begin.
MaxCycles == 2

\* Events the update queue may hold (queue.Queue() itself is unbounded).
MaxQueue == 2

\* ---------------------------------------------------------- constants

\* DigitalGauge.segments
Segments == 20

\* numerator and denominator of the km/h to mph factor 0.621371
SpeedFactorNum == 621371
SpeedFactorDen == 1000000

None == << >>
Some(v) == << v >>

\* gauge_configs: (key, label, max_value, unit), in table order
gauge_configs ==
  << <<"INTAKE_TEMP", "Intake Temp", 100, "C">>,
     <<"OIL_TEMP", "Oil Temp", 150, "C">>,
     <<"COOLANT_TEMP", "Coolant Temp", 120, "C">>,
     <<"RPM", "RPM", 8000, "rpm">>,
     <<"SPEED", "Speed", 200, "mph">>,
     <<"ENGINE_LOAD", "Engine Load", 100, "%">>,
     <<"FUEL_LEVEL", "Fuel Level", 100, "%">>,
     <<"SHORT_FUEL_TRIM_1", "Short Fuel Trim", 100, "%">>,
     <<"THROTTLE_POS", "Throttle Pos", 100, "%">>,
     <<"MAF", "MAF", 300, "g/s">>,
     <<"BAROMETRIC_PRESSURE", "Baro Pressure", 200, "kPa">>,
     <<"AMBIANT_AIR_TEMP", "Ambient Temp", 50, "C">> >>

\* the keys of self.gauges
GaugeKeys == { gauge_configs[i][1] : i \in 1..Len(gauge_configs) }

\* update_gauges' commands dict, in insertion order (its keys)
commands ==
  << "INTAKE_TEMP", "OIL_TEMP", "COOLANT_TEMP", "RPM", "SPEED", "ENGINE_LOAD",
     "FUEL_LEVEL", "SHORT_FUEL_TRIM_1", "THROTTLE_POS", "MAF",
     "BAROMETRIC_PRESSURE", "AMBIANT_AIR_TEMP" >>

\* the commands one poll cycle queries, within the bound
Polled == 1..NumSensors

\* ------------------------------------------------------- DigitalGauge

\* Python's min
Min(a, b) == IF a < b THEN a ELSE b

\* Python's int() of a quotient a / b with b > 0: truncation toward zero
IntOfQuotient(a, b) == IF a >= 0 THEN a \div b ELSE -((-a) \div b)

\* DigitalGauge.__init__
NewGauge(max_value, label, unit) ==
  [max_value |-> max_value, label |-> label, unit |-> unit,
   value |-> 0, segments |-> Segments, color |-> "red", active |-> TRUE]

\* a set_value that forgets the clamp
set_value_unclamped(g, value) == [g EXCEPT !.value = value, !.active = TRUE]

\* a set_value that leaves an inactive gauge inactive
set_value_stays_inactive(g, value) == [g EXCEPT !.value = Min(value, g.max_value)]

\* DigitalGauge.set_value
set_value(g, value) ==
  [g EXCEPT !.value = Min(value, g.max_value), !.active = TRUE]

\* a set_inactive that falls back to the red theme
set_inactive_red(g) == [g EXCEPT !.active = FALSE, !.color = "red"]

\* DigitalGauge.set_inactive
set_inactive(g) == [g EXCEPT !.active = FALSE]

\* a set_color whose redraw takes the gauge for active
set_color_activates(g, color) == [g EXCEPT !.color = color, !.active = TRUE]

\* DigitalGauge.set_color
set_color(g, color) == [g EXCEPT !.color = color]

\* DigitalGauge.color_dim
color_dim(g) == IF g.color = "red" THEN "#300000" ELSE "#303030"

\* DigitalGauge.draw: the fill of segment i (0-based)
SegmentFill(g, i) ==
  IF g.active
    THEN IF i < IntOfQuotient(g.value * g.segments, g.max_value)
           THEN g.color ELSE color_dim(g)
    ELSE color_dim(g)

\* DigitalGauge.draw: the segments drawn in the gauge's color (lit)
LitSegments(g) ==
  Cardinality({ i \in 0..(g.segments - 1) : SegmentFill(g, i) = g.color })

\* DigitalGauge.draw: value_text.  f"{value:.1f} {unit}" of a whole number
\* is its digits, ".0", a blank and the unit: kept as the pair it prints.
ValueText(g) ==
  IF g.active THEN << "number.1f", g.value, g.unit >> ELSE << "N/A" >>

\* ------------------------------------------------ the adapter's answers

\* magnitudes a sensor query may return: below zero, within every gauge's
\* range, above the first gauges' maximum
Readings == { -10, 55, 200 }

\* connection.query(command) for a sensor raises, gives a null response, or
\* gives a value.  Every way it fails, and one reading:
FaultAnswers == { <<"raise">>, <<"null">>, <<"value", 55>> }

\* every reading, and one failure
RangeAnswers == { <<"raise">> } \cup { <<"value", r>> : r \in Readings }

P0171 == << "P0171", "System Too Lean" >>
P0300 == << "P0300", "Random Misfire" >>

\* connection.query(GET_DTC): raises, or a response whose value is None or a
\* list of (code, description) pairs
DtcOutcomes ==
  { <<"raise">>, <<"value", None>>, <<"value", Some(<< >>)>>,
    <<"value", Some(<< P0171 >>)>>, <<"value", Some(<< P0171, P0300 >>)>>,
    <<"value", Some(<< P0300, P0171 >>)>> }

\* one failing and one valid answer of each query
SomeQueryOutcomes == { <<"raise">>, <<"value", 55>> }
SomeDtcOutcomes == { <<"raise">>, <<"value", Some(<< P0171 >>)>> }

\* obd.OBD(): returns a handle or raises
ConnectOutcomes == { <<"raise">>, <<"value", "obd">> }

\* Python truth of an optional list: None and [] are false
Truthy(v) == v # None /\ v[1] # << >>

\* ---------------------------------------------------------------- state

VARIABLES
  gauges,        \* self.gauges: key -> DigitalGauge
  update_queue,  \* self.update_queue
  color,         \* self.color
  connection,    \* self.connection: None or Some(handle)
  running,       \* self.running
  status_var,    \* self.status_var
  status_fg,     \* self.status_label's fg
  dtc_var,       \* self.dtc_var
  dtc_fg,        \* self.dtc_label's fg
  closed,        \* whether close() was called on the handle
  wpc,           \* where main_async_loop stands
  idx,           \* update_gauges: position in commands
  cycle,         \* poll cycles begun
  loopStop,      \* self.loop: "no", "requested" (stop callback queued), "stopped"
  graceStep,     \* the task's wakeup was queued ahead of the stop callback
  upc,           \* where the tkinter main thread stands
  qghost,        \* per queued item: [id, cyc, idx, out], the query it came from
  enq,           \* items ever put
  nApplied,      \* items ever applied by process_updates
  shown,         \* per gauge key: None or Some([item, cyc, out]), the item applied last
                 \* to it, the poll cycle and the answer it came from
  shownDtc,      \* None or Some(answer) of the GET_DTC query whose item was applied last
  consec,        \* toggle_color calls in a row on the main thread (up to 2)
  snap,          \* the colors before the first of them
  openAtStop,    \* None, or Some(whether a handle was open when stop() was entered)
  workerTouched, \* attributes of the dashboard the worker thread has used so far
  uiTouched,     \* attributes the main thread has used since __init__ returned
  attempts,      \* obd.OBD() calls handed to the executor and not yet awaited back
  emitted,       \* positions in commands (0: GET_DTC) of the items put so far in
                 \* the poll cycle in progress, in the order they were put
  dtcOut,        \* None, or Some(answer) of the GET_DTC query of that cycle
  revived        \* the item process_updates applied last in this tick set a
                 \* gauge active that was inactive

vars ==
  << gauges, update_queue, color, connection, running, status_var, status_fg,
     dtc_var, dtc_fg, closed, wpc, idx, cycle, loopStop, graceStep, upc,
     qghost, enq, nApplied, shown, shownDtc, consec, snap,
     openAtStop, workerTouched, uiTouched, attempts, emitted, dtcOut, revived >>

uiVars ==
  << gauges, color, status_fg, dtc_var, dtc_fg, upc, nApplied, shown,
     shownDtc, consec, snap, openAtStop, uiTouched, revived >>

workerVars == << wpc, idx, cycle, enq, workerTouched, attempts, emitted, dtcOut >>

\* the colors on screen
Colors == << color, [k \in GaugeKeys |-> gauges[k].color], status_fg, dtc_fg >>

\* AsyncRetroDashboard.__init__
Init ==
  /\ gauges = [k \in GaugeKeys |->
                 LET c == CHOOSE i \in 1..Len(gauge_configs) : gauge_configs[i][1] = k
                 IN NewGauge(gauge_configs[c][3], gauge_configs[c][2], gauge_configs[c][4])]
  /\ update_queue = << >>
  /\ color = "red"
  /\ connection = None
  /\ running = TRUE
  /\ status_var = "INITIALIZING..."
  /\ status_fg = "red"
  /\ dtc_var = ""
  /\ dtc_fg = "yellow"
  /\ closed = FALSE
  /\ wpc = "loop_test"
  /\ idx = 0
  /\ cycle = 0
  /\ loopStop = "no"
  /\ graceStep = FALSE
  /\ upc = "idle"
  /\ qghost = << >>
  /\ enq = 0
  /\ nApplied = 0
  /\ shown = [k \in GaugeKeys |-> None]
  /\ shownDtc = None
  /\ consec = 0
  /\ snap = None
  /\ openAtStop = None
  /\ workerTouched = { }
  /\ uiTouched = { }
  /\ attempts = 0
  /\ emitted = << >>
  /\ dtcOut = None
  /\ revived = FALSE

\* ------------------------------------------------- the polling loop

\* update_gauges lines 161-162: mph from km/h for SPEED, to the whole unit
Convert(name, value) ==
  IF name = "SPEED"
    THEN IntOfQuotient(value * SpeedFactorNum, SpeedFactorDen)
    ELSE value

\* an update_gauges whose failing query blanks every gauge of the cycle
GaugeItemsAllInactive(name, response) ==
  IF response[1] = "value"
    THEN << << "gauge", << name, Convert(name, response[2]), TRUE >> >> >>
    ELSE [j \in 1..NumSensors |-> << "gauge", << commands[j], 0, FALSE >> >>]

\* an update_gauges that puts nothing for a null response
GaugeItemsSkipNull(name, response) ==
  IF response[1] = "value"
    THEN << << "gauge", << name, Convert(name, response[2]), TRUE >> >> >>
    ELSE IF response[1] = "null"
           THEN << >>
           ELSE << << "gauge", << name, 0, FALSE >> >> >>

\* update_gauges, the body of the loop after the query of `name` answered:
\* the items it puts
GaugeItems(name, response) ==
  IF response[1] = "value"
    THEN << << "gauge", << name, Convert(name, response[2]), TRUE >> >> >>
    ELSE << << "gauge", << name, 0, FALSE >> >> >>

\* a check_dtc that clears the display when its query raised
DtcItemsClearOnRaise(response) ==
  IF response[1] = "raise"
    THEN << << "dtc", None >> >>
    ELSE IF Truthy(response[2])
           THEN << << "dtc", response[2] >> >>
           ELSE << << "dtc", None >> >>

\* check_dtc after the query answered: the items it puts
DtcItems(response) ==
  IF response[1] = "raise"
    THEN << >>
    ELSE IF Truthy(response[2])
           THEN << << "dtc", response[2] >> >>
           ELSE << << "dtc", None >> >>

\* the position in commands of the sensor an item names (0: a "dtc" item)
EmitOf(items) ==
  [j \in 1..Len(items) |->
     IF items[j][1] = "dtc"
       THEN 0
       ELSE CHOOSE i \in 1..Len(commands) : commands[i] = items[j][2][1]]

\* the ghost entries of `items`, put for the query of commands[i] (0: GET_DTC)
GhostOf(items, i, response) ==
  [j \in 1..Len(items) |->
     [id |-> enq + j, cyc |-> cycle, idx |-> i, out |-> response]]

\* the await points of main_async_loop
AwaitPcs == { "await_connect", "await_backoff", "await_query", "await_dtc",
              "await_sleep" }

\* the event loop runs the task's next step: always before loop.stop() was
\* asked for, and once more after it if the wakeup was queued first
CanResume == loopStop = "no" \/ (loopStop = "requested" /\ graceStep)

\* the bound on the queue, while the main thread still drains it
QueueHasRoom(items) ==
  loopStop = "no" => Len(update_queue) + Len(items) <= MaxQueue

\* update_gauges entered: the first query is handed to the executor
BeginCycle ==
  /\ wpc' = "await_query"
  /\ idx' = 1
  /\ cycle' = cycle + 1

\* line 119: while self.running
LoopTest ==
  /\ wpc = "loop_test"
  /\ running => cycle < MaxCycles
  /\ wpc' = IF running THEN "check_conn" ELSE "done"
  /\ workerTouched' = workerTouched \cup { "running" }
  /\ UNCHANGED << idx, cycle, enq, graceStep, attempts, emitted, dtcOut >>
  /\ UNCHANGED << update_queue, qghost, connection, status_var, running, closed, loopStop >>
  /\ UNCHANGED uiVars

\* a loop that reconnects at every iteration, handle or not
CheckConnAlways ==
  /\ wpc = "check_conn"
  /\ wpc' = "await_connect"
  /\ attempts' = attempts + 1
  /\ workerTouched' = workerTouched \cup { "connection" }
  /\ UNCHANGED << idx, cycle, enq, graceStep, emitted, dtcOut >>
  /\ UNCHANGED << update_queue, qghost, connection, status_var, running, closed, loopStop >>
  /\ UNCHANGED uiVars

\* line 120: if not self.connection; else lines 126, 156-158
CheckConn ==
  /\ wpc = "check_conn"
  /\ IF connection = None
       THEN wpc' = "await_connect" /\ attempts' = attempts + 1
            /\ UNCHANGED << idx, cycle >>
       ELSE BeginCycle /\ UNCHANGED attempts
  /\ workerTouched' = workerTouched \cup { "connection" }
  /\ UNCHANGED << enq, graceStep, emitted, dtcOut >>
  /\ UNCHANGED << update_queue, qghost, connection, status_var, running, closed, loopStop >>
  /\ UNCHANGED uiVars

\* connect_obd once obd.OBD() answered
ConnectDone(response) ==
  /\ wpc = "await_connect"
  /\ CanResume
  /\ IF response[1] = "value"
       THEN connection' = Some(response[2]) /\ status_var' = "CONNECTED"
       ELSE connection' = None /\ status_var' = "CONNECTION FAILED"
  /\ wpc' = "post_connect"
  /\ graceStep' = FALSE
  /\ workerTouched' = workerTouched \cup { "connection", "status_var" }
  /\ attempts' = attempts - 1
  /\ UNCHANGED << idx, cycle, enq, emitted, dtcOut >>
  /\ UNCHANGED << update_queue, qghost, running, closed, loopStop >>
  /\ UNCHANGED uiVars

\* a loop that gives up when the connection attempt failed
PostConnectGivesUp ==
  /\ wpc = "post_connect"
  /\ IF connection = None
       THEN wpc' = "done" /\ UNCHANGED << idx, cycle >>
       ELSE BeginCycle
  /\ UNCHANGED << enq, graceStep, workerTouched, attempts, emitted, dtcOut >>
  /\ UNCHANGED << update_queue, qghost, connection, status_var, running, closed, loopStop >>
  /\ UNCHANGED uiVars

\* lines 122-126 after connect_obd returned
PostConnect ==
  /\ wpc = "post_connect"
  /\ IF connection = None
       THEN wpc' = "await_backoff" /\ UNCHANGED << idx, cycle >>
       ELSE BeginCycle
  /\ UNCHANGED << enq, graceStep, workerTouched, attempts, emitted, dtcOut >>
  /\ UNCHANGED << update_queue, qghost, connection, status_var, running, closed, loopStop >>
  /\ UNCHANGED uiVars

\* lines 123-124: asyncio.sleep(5) over, continue
BackoffDone ==
  /\ wpc = "await_backoff"
  /\ CanResume
  /\ wpc' = "loop_test"
  /\ graceStep' = FALSE
  /\ UNCHANGED << idx, cycle, enq, workerTouched, attempts, emitted, dtcOut >>
  /\ UNCHANGED << update_queue, qghost, connection, status_var, running, closed, loopStop >>
  /\ UNCHANGED uiVars

\* an update_gauges whose raising query drops the handle
QueryDoneDemotes(response) ==
  /\ wpc = "await_query"
  /\ CanResume
  /\ LET items == GaugeItems(commands[idx], response) IN
       /\ QueueHasRoom(items)
       /\ update_queue' = update_queue \o items
       /\ qghost' = qghost \o GhostOf(items, idx, response)
       /\ enq' = enq + Len(items)
       /\ emitted' = emitted \o EmitOf(items)
  /\ IF idx < NumSensors
       THEN idx' = idx + 1 /\ wpc' = "await_query"
       ELSE idx' = 0 /\ wpc' = "await_dtc"
  /\ graceStep' = FALSE
  /\ connection' = IF response[1] = "raise" THEN None ELSE connection
  /\ workerTouched' = workerTouched \cup { "update_queue", "connection" }
  /\ UNCHANGED << attempts, dtcOut >>
  /\ UNCHANGED << cycle, status_var, running, closed, loopStop >>
  /\ UNCHANGED uiVars

\* update_gauges lines 158-170 once the query of commands[idx] answered, then
\* the next query (line 158) or check_dtc's (line 174) is handed over
QueryDone(response) ==
  /\ wpc = "await_query"
  /\ CanResume
  /\ LET items == GaugeItems(commands[idx], response) IN
       /\ QueueHasRoom(items)
       /\ update_queue' = update_queue \o items
       /\ qghost' = qghost \o GhostOf(items, idx, response)
       /\ enq' = enq + Len(items)
       /\ emitted' = emitted \o EmitOf(items)
  /\ IF idx < NumSensors
       THEN idx' = idx + 1 /\ wpc' = "await_query"
       ELSE idx' = 0 /\ wpc' = "await_dtc"
  /\ graceStep' = FALSE
  /\ workerTouched' = workerTouched \cup { "update_queue", "connection" }
  /\ UNCHANGED << attempts, dtcOut >>
  /\ UNCHANGED << cycle, connection, status_var, running, closed, loopStop >>
  /\ UNCHANGED uiVars

\* check_dtc lines 174-181 once the query answered, then line 128's sleep
DtcDone(response) ==
  /\ wpc = "await_dtc"
  /\ CanResume
  /\ LET items == DtcItems(response) IN
       /\ QueueHasRoom(items)
       /\ update_queue' = update_queue \o items
       /\ qghost' = qghost \o GhostOf(items, 0, response)
       /\ enq' = enq + Len(items)
       /\ emitted' = emitted \o EmitOf(items)
       /\ workerTouched' = workerTouched \cup
            (IF items = << >> THEN { } ELSE { "update_queue" })
  /\ wpc' = "await_sleep"
  /\ graceStep' = FALSE
  /\ dtcOut' = Some(response)
  /\ UNCHANGED attempts
  /\ UNCHANGED << idx, cycle, connection, status_var, running, closed, loopStop >>
  /\ UNCHANGED uiVars

\* line 128: asyncio.sleep(0.1) over
SleepDone ==
  /\ wpc = "await_sleep"
  /\ CanResume
  /\ wpc' = "loop_test"
  /\ graceStep' = FALSE
  /\ emitted' = << >>
  /\ dtcOut' = None
  /\ UNCHANGED << idx, cycle, enq, workerTouched, attempts >>
  /\ UNCHANGED << update_queue, qghost, connection, status_var, running, closed, loopStop >>
  /\ UNCHANGED uiVars

\* loop.stop() takes effect: run_until_complete gives up the pending task
LoopHalt ==
  /\ loopStop = "requested"
  /\ wpc \in AwaitPcs
  /\ ~graceStep
  /\ loopStop' = "stopped"
  /\ wpc' = "halted"
  /\ UNCHANGED << idx, cycle, enq, graceStep, workerTouched, attempts, emitted,
                  dtcOut >>
  /\ UNCHANGED << update_queue, qghost, connection, status_var, running, closed >>
  /\ UNCHANGED uiVars

\* main_async_loop, the adapter answering from `answers` and `dtcs`
Polling(answers, dtcs) ==
  \/ LoopTest
  \/ CheckConn
  \/ \E r \in ConnectOutcomes : ConnectDone(r)
  \/ PostConnect
  \/ BackoffDone
  \/ \E r \in answers : QueryDone(r)
  \/ \E r \in dtcs : DtcDone(r)
  \/ SleepDone

\* ------------------------------------------------ the tkinter main thread

\* a queue that hands out its newest item
GetIndexNewest(q) == Len(q)

\* queue.Queue.get_nowait: the position of the item it removes
GetIndex(q) == 1

\* q without its i-th item
Without(q, i) == [j \in 1..(Len(q) - 1) |-> IF j < i THEN q[j] ELSE q[j + 1]]

\* line 195: f"{code[0]}: {code[1]}"
CodeText(code) == code[1] \o ": " \o code[2]

\* str.join
RECURSIVE Join(_, _)
Join(sep, strs) ==
  IF strs = << >> THEN ""
  ELSE IF Len(strs) = 1 THEN strs[1]
  ELSE strs[1] \o sep \o Join(sep, Tail(strs))

\* a dtc_string that joins the codes last to first
DtcStringReversed(codes) ==
  Join(" | ", [j \in 1..Len(codes) |-> CodeText(codes[Len(codes) + 1 - j])])

\* line 195: dtc_string
DtcString(codes) == Join(" | ", [j \in 1..Len(codes) |-> CodeText(codes[j])])

\* lines 187-192: a "gauge" item applied to self.gauges
ApplyGauge(gs, item_value) ==
  LET name == item_value[1]
      value == item_value[2]
      active == item_value[3]
  IN  IF active
        THEN [gs EXCEPT ![name] = set_value(@, value)]
        ELSE [gs EXCEPT ![name] = set_inactive(@)]

\* lines 193-198: a "dtc" item applied to self.dtc_var
ApplyDtc(item_value) ==
  IF Truthy(item_value) THEN DtcString(item_value[1]) ELSE ""

\* a toggle that never goes back to red
ToggledColorStuck(c) == IF c = "red" THEN "white" ELSE "white"

\* line 204
ToggledColor(c) == IF c = "red" THEN "white" ELSE "red"

\* the timer fires process_updates
ProcessUpdatesBegin ==
  /\ upc = "idle"
  /\ uiTouched' = uiTouched \cup { "update_queue" }
  /\ upc' = "drain"
  /\ consec' = 0
  /\ snap' = None
  /\ UNCHANGED << gauges, color, status_fg, dtc_var, dtc_fg, nApplied,
                  shown, shownDtc, openAtStop, revived >>
  /\ UNCHANGED << update_queue, qghost, connection, status_var, running, closed,
                  loopStop, graceStep >>
  /\ UNCHANGED workerVars

\* lines 186-198: one item taken and applied
GetNowait ==
  /\ upc = "drain"
  /\ update_queue # << >>
  /\ uiTouched' = uiTouched \cup
       { "update_queue", IF update_queue[GetIndex(update_queue)][1] = "gauge"
                           THEN "gauges" ELSE "dtc_var" }
  /\ LET i == GetIndex(update_queue)
         item == update_queue[i]
         g == qghost[i]
     IN  /\ update_queue' = Without(update_queue, i)
         /\ qghost' = Without(qghost, i)
         /\ IF item[1] = "gauge"
              THEN /\ gauges' = ApplyGauge(gauges, item[2])
                   /\ UNCHANGED dtc_var
              ELSE /\ dtc_var' = ApplyDtc(item[2])
                   /\ UNCHANGED gauges
         /\ IF g.idx = 0
              THEN /\ shownDtc' = Some(g.out)
                   /\ UNCHANGED shown
              ELSE /\ shown' = [shown EXCEPT ![commands[g.idx]] =
                                  Some([item |-> item, cyc |-> g.cyc, out |-> g.out])]
                   /\ UNCHANGED shownDtc
  /\ nApplied' = nApplied + 1
  /\ revived' = \E k \in GaugeKeys : gauges'[k].active /\ ~gauges[k].active
  /\ UNCHANGED << color, status_fg, dtc_fg, upc, consec, snap, openAtStop >>
  /\ UNCHANGED << connection, status_var, running, closed, loopStop, graceStep >>
  /\ UNCHANGED workerVars

\* a process_updates that returns while items are waiting
QueueEmptyEarly ==
  /\ upc = "drain"
  /\ uiTouched' = uiTouched \cup { "update_queue" }
  /\ upc' = "idle"
  /\ revived' = FALSE
  /\ UNCHANGED << gauges, color, status_fg, dtc_var, dtc_fg, nApplied, shown,
                  shownDtc, consec, snap, openAtStop >>
  /\ UNCHANGED << update_queue, qghost, connection, status_var, running, closed,
                  loopStop, graceStep >>
  /\ UNCHANGED workerVars

\* lines 199-201: queue.Empty, and the next tick is scheduled
QueueEmpty ==
  /\ upc = "drain"
  /\ uiTouched' = uiTouched \cup { "update_queue" }
  /\ update_queue = << >>
  /\ upc' = "idle"
  /\ revived' = FALSE
  /\ UNCHANGED << gauges, color, status_fg, dtc_var, dtc_fg, nApplied, shown,
                  shownDtc, consec, snap, openAtStop >>
  /\ UNCHANGED << update_queue, qghost, connection, status_var, running, closed,
                  loopStop, graceStep >>
  /\ UNCHANGED workerVars

\* toggle_color
ToggleColor ==
  /\ upc = "idle"
  /\ uiTouched' = uiTouched \cup { "color", "gauges", "status_label", "dtc_label" }
  /\ color' = ToggledColor(color)
  /\ gauges' = [k \in GaugeKeys |-> set_color(gauges[k], color')]
  /\ status_fg' = color'
  /\ dtc_fg' = "yellow"
  /\ IF consec = 1
       THEN consec' = 2 /\ snap' = snap
       ELSE consec' = 1 /\ snap' = Some(Colors)
  /\ UNCHANGED << dtc_var, upc, nApplied, shown, shownDtc, openAtStop, revived >>
  /\ UNCHANGED << update_queue, qghost, connection, status_var, running, closed,
                  loopStop, graceStep >>
  /\ UNCHANGED workerVars

\* stop, line 211
StopBegin ==
  /\ upc = "idle"
  /\ uiTouched' = uiTouched \cup { "running" }
  /\ running' = FALSE
  /\ openAtStop' = Some(connection # None)
  /\ upc' = "stop_close"
  /\ consec' = 0
  /\ snap' = None
  /\ UNCHANGED << gauges, color, status_fg, dtc_var, dtc_fg, nApplied,
                  shown, shownDtc, revived >>
  /\ UNCHANGED << update_queue, qghost, connection, status_var, closed,
                  loopStop, graceStep >>
  /\ UNCHANGED workerVars

\* a stop that leaves the handle open
StopCloseSkipped ==
  /\ upc = "stop_close"
  /\ upc' = "stop_loop"
  /\ uiTouched' = uiTouched \cup { "connection" }
  /\ UNCHANGED << gauges, color, status_fg, dtc_var, dtc_fg, nApplied, shown,
                  shownDtc, consec, snap, openAtStop, revived >>
  /\ UNCHANGED << update_queue, qghost, connection, status_var, running, closed,
                  loopStop, graceStep >>
  /\ UNCHANGED workerVars

\* stop, lines 212-213
StopClose ==
  /\ upc = "stop_close"
  /\ uiTouched' = uiTouched \cup { "connection" }
  /\ closed' = (closed \/ connection # None)
  /\ upc' = "stop_loop"
  /\ UNCHANGED << gauges, color, status_fg, dtc_var, dtc_fg, nApplied, shown,
                  shownDtc, consec, snap, openAtStop, revived >>
  /\ UNCHANGED << update_queue, qghost, connection, status_var, running,
                  loopStop, graceStep >>
  /\ UNCHANGED workerVars

\* stop, lines 214-215; exit_app then leaves the main loop
StopLoop ==
  /\ upc = "stop_loop"
  /\ uiTouched' = uiTouched \cup { "loop", "executor" }
  /\ loopStop' = "requested"
  /\ graceStep' \in (IF wpc \in AwaitPcs THEN BOOLEAN ELSE { FALSE })
  /\ upc' = "quit"
  /\ UNCHANGED << gauges, color, status_fg, dtc_var, dtc_fg, nApplied, shown,
                  shownDtc, consec, snap, openAtStop, revived >>
  /\ UNCHANGED << update_queue, qghost, connection, status_var, running, closed >>
  /\ UNCHANGED workerVars

\* stop
Stop == StopBegin \/ StopClose \/ StopLoop

\* process_updates
Tick == ProcessUpdatesBegin \/ GetNowait \/ QueueEmpty

\* The program: both threads, the click and the exit, the adapter answering
\* each kind of answer once.
Next ==
  \/ Polling(SomeQueryOutcomes, SomeDtcOutcomes)
  \/ LoopHalt
  \/ Tick
  \/ ToggleColor
  \/ Stop

Spec == Init /\ [][Next]_vars

\* The data path, the polling loop and the timer, under each family of
\* answers: every failure of a sensor query, every reading, every answer of
\* the diagnostic query.
FaultNext == Polling(FaultAnswers, SomeDtcOutcomes) \/ Tick

FaultSpec == Init /\ [][FaultNext]_vars

RangeNext == Polling(RangeAnswers, SomeDtcOutcomes) \/ Tick

RangeSpec == Init /\ [][RangeNext]_vars

DtcNext == Polling(SomeQueryOutcomes, DtcOutcomes) \/ Tick

DtcSpec == Init /\ [][DtcNext]_vars

\* fairness: the worker thread keeps running and no call hangs; a stop()
\* that was entered runs to its end
FairSpec ==
  /\ Spec
  /\ WF_vars(Polling(SomeQueryOutcomes, SomeDtcOutcomes) \/ LoopHalt)
  /\ WF_vars(StopClose \/ StopLoop)

\* the polling loop and the timer left to run: no call of the worker hangs,
\* the timer keeps firing process_updates, and nobody exits
LiveSpec ==
  /\ FaultSpec
  /\ WF_vars(Polling(FaultAnswers, SomeDtcOutcomes))
  /\ WF_vars(Tick)

\* ---------------------------------------------------------------- claims

\* the gauge of commands[i]
GaugeOf(i) == gauges[commands[i]]

\* a query answer that carries a reading
IsValid(out) == out[1] = "value"

\* C1: a sensor's event and its gauge depend on that sensor's own answer only.
\* Every queued gauge item names the sensor whose query produced it, is active
\* exactly when that query gave a reading, and carries 0 when it did not; a
\* cycle that reached its diagnostic query left one item for every sensor; and
\* each gauge shows what its own latest applied answer says, whatever the
\* other sensors answered.
C1_FailureIsolated ==
  /\ Len(qghost) = Len(update_queue)
  /\ \A j \in 1..Len(update_queue) :
       LET item == update_queue[j]
           g == qghost[j]
       IN  g.idx # 0 =>
             /\ item[1] = "gauge"
             /\ item[2][1] = commands[g.idx]
             /\ item[2][3] = IsValid(g.out)
             /\ item[2][2] = IF IsValid(g.out)
                               THEN Convert(commands[g.idx], g.out[2]) ELSE 0
  /\ wpc \in { "await_dtc", "await_sleep" } =>
       \A y \in Polled :
         \/ \E j \in 1..Len(qghost) : qghost[j].cyc = cycle /\ qghost[j].idx = y
         \/ shown[commands[y]] # None /\ shown[commands[y]][1].cyc = cycle
  /\ \A y \in Polled :
       shown[commands[y]] # None =>
         LET sh == shown[commands[y]][1] IN
           /\ sh.item[2][1] = commands[y]
           /\ GaugeOf(y).active = IsValid(sh.out)
           /\ IsValid(sh.out) =>
                GaugeOf(y).value =
                  Min(Convert(commands[y], sh.out[2]), GaugeOf(y).max_value)

\* C1 witness: in one cycle sensor x raised, the later sensor y gave a reading,
\* both items are applied, x reads N/A and y shows its reading.
C1_Witness ==
  \E x, y \in Polled :
    /\ x < y
    /\ shown[commands[x]] # None
    /\ shown[commands[y]] # None
    /\ shown[commands[x]][1].cyc = shown[commands[y]][1].cyc
    /\ shown[commands[x]][1].out = << "raise" >>
    /\ shown[commands[y]][1].out = << "value", 55 >>
    /\ ~GaugeOf(x).active
    /\ GaugeOf(y).active
    /\ GaugeOf(y).value = 55

\* C2: the queue is first in, first out between the two threads.  Items are
\* numbered as they are put; the items waiting are exactly those numbered
\* after the last one applied, in order, so process_updates applies number
\* 1, 2, 3, ... with none skipped, repeated or overtaken.
C2_FifoOrder ==
  /\ Len(qghost) = Len(update_queue)
  /\ nApplied + Len(update_queue) = enq
  /\ \A j \in 1..Len(qghost) : qghost[j].id = nApplied + j

\* C2 witness: the worker has put items while process_updates was draining.
C2_Witness ==
  /\ upc = "drain"
  /\ nApplied >= 2
  /\ Len(update_queue) = 2
  /\ qghost[1].cyc # qghost[2].cyc

\* C3 (as claimed): every gauge's value lies in [0, max_value].
C3_ValueInRange ==
  \A k \in GaugeKeys : 0 <= gauges[k].value /\ gauges[k].value <= gauges[k].max_value

\* C4: a gauge whose last applied item was set_value(v) with v > max_value is
\* active, shows max_value and has all its segments lit.
C4_ClampsAboveMax ==
  \A k \in GaugeKeys :
    (/\ shown[k] # None
     /\ shown[k][1].item[2][3]
     /\ shown[k][1].item[2][2] > gauges[k].max_value)
    => /\ gauges[k].active
       /\ gauges[k].value = gauges[k].max_value
       /\ ValueText(gauges[k]) = << "number.1f", gauges[k].max_value, gauges[k].unit >>
       /\ LitSegments(gauges[k]) = Segments

\* C4 witness: a reading of 200 was applied to a gauge whose maximum is 100.
C4_Witness ==
  \E k \in GaugeKeys :
    /\ shown[k] # None
    /\ shown[k][1].item = << "gauge", << k, 200, TRUE >> >>
    /\ gauges[k].max_value = 100
    /\ gauges[k].value = 100

\* C5: a gauge whose last applied item was set_inactive reads "N/A" and has no
\* segment lit, whatever value it held and however often it was recolored since.
C5_InactiveShowsNA ==
  \A k \in GaugeKeys :
    (shown[k] # None /\ ~shown[k][1].item[2][3])
    => /\ ValueText(gauges[k]) = << "N/A" >>
       /\ LitSegments(gauges[k]) = 0

\* C5 witness: a gauge that held 55 was set inactive, and toggle_color has
\* recolored it since.
C5_Witness ==
  \E k \in GaugeKeys :
    /\ shown[k] # None
    /\ ~shown[k][1].item[2][3]
    /\ gauges[k].value = 55
    /\ gauges[k].color = "white"
    /\ consec >= 1

\* C6 (as claimed): the segments lit are floor(value * 20 / max_value) of an
\* active gauge and none of an inactive one, and never fewer than 0 or more
\* than 20.
C6_LitIsFloor ==
  \A k \in GaugeKeys :
    LET g == gauges[k]
        lit == LitSegments(g)
    IN  /\ lit = IF g.active THEN (g.value * g.segments) \div g.max_value ELSE 0
        /\ 0 <= lit
        /\ lit <= Segments

\* C7: after two toggle_color calls in a row the theme color, every gauge's
\* color and the labels' colors are what they were before the first.
C7_ToggleTwiceRestores == consec = 2 => Colors = snap[1]

\* C7 witness: two toggles in a row, starting from the white theme, after
\* items were applied.
C7_Witness ==
  /\ consec = 2
  /\ color = "white"
  /\ nApplied >= 1

\* "code: description" of each pair, joined left to right
RECURSIVE Rendered(_)
Rendered(codes) ==
  IF Len(codes) = 1
    THEN codes[1][1] \o ": " \o codes[1][2]
    ELSE Rendered(SubSeq(codes, 1, Len(codes) - 1)) \o " | "
           \o codes[Len(codes)][1] \o ": " \o codes[Len(codes)][2]

\* C8: once the item of a diagnostic query is applied, the display is the
\* query's pairs as "code: description" joined in list order (one pair gives
\* just that text), and the empty string when the query gave None or no pair.
C8_DtcDisplay ==
  shownDtc # None =>
    LET v == shownDtc[1][2] IN
      /\ (v # None /\ v[1] # << >>) => dtc_var = Rendered(v[1])
      /\ (v = None \/ v[1] = << >>) => dtc_var = ""
      /\ v = Some(<< P0171 >>) => dtc_var = "P0171: System Too Lean"

\* C8 witness: two codes were returned and are displayed in their order.
C8_Witness ==
  /\ shownDtc = Some(<< "value", Some(<< P0300, P0171 >>) >>)
  /\ dtc_var = "P0300: Random Misfire | P0171: System Too Lean"

\* the worker runs no more: the coroutine returned, or the loop was stopped
Quiescent == wpc \in { "done", "halted" }

\* C9 (as claimed): once stop() has cleared the running flag no poll cycle
\* begins; after stop() the worker comes to rest and puts nothing more; stop()
\* closes the handle that was open when it was entered; and no step of stop()
\* waits for the worker.
C9_NoCycleAfterStop ==
  /\ [][~running => cycle' = cycle]_vars
  /\ (upc = "quit") ~> Quiescent
  /\ [][Quiescent => (wpc' = wpc /\ enq' = enq)]_vars
  /\ [](upc \in { "stop_loop", "quit" } /\ openAtStop = Some(TRUE) => closed)
  /\ [](upc \in { "stop_close", "stop_loop" } => ENABLED Stop)

\* C9 (amended): once stop() has cleared the running flag the test of
\* `while self.running` never passes again, so no iteration of the loop
\* begins, though the iteration in progress may still enter its poll cycle;
\* after stop() the worker comes to rest and puts nothing more; stop() closes
\* the handle that was open when it was entered; and no step of stop() waits
\* for the worker.
C9_Shutdown ==
  /\ [][~running => ~(wpc = "loop_test" /\ wpc' = "check_conn")]_vars
  /\ (upc = "quit") ~> Quiescent
  /\ [][Quiescent => (wpc' = wpc /\ enq' = enq)]_vars
  /\ [](upc \in { "stop_loop", "quit" } /\ openAtStop = Some(TRUE) => closed)
  /\ [](upc \in { "stop_close", "stop_loop" } => ENABLED Stop)

\* C9 witness: stop() returned while a poll cycle was in progress; the handle
\* it found open is closed and the worker has come to rest.
C9_Witness ==
  /\ upc = "quit"
  /\ openAtStop = Some(TRUE)
  /\ closed
  /\ wpc = "halted"
  /\ idx >= 1

\* the attributes that are presentation state
PresentationState ==
  { "gauges", "color", "status_var", "status_label", "dtc_var", "dtc_label" }

\* C10 (as claimed): the worker thread uses no presentation state, and the
\* update queue is the only attribute both threads use.
C10_WorkerConfined ==
  /\ workerTouched \cap PresentationState = { }
  /\ (workerTouched \cap uiTouched) \subseteq { "update_queue" }

\* C11: no failure ends the polling loop.  While the running flag is set the
\* coroutine neither returns nor is given up, and from every state the loop
\* comes again to a connection attempt or to the end of a poll cycle (line
\* 128's sleep), until the cycles of the bound are used up: after a failed
\* attempt and its backoff another attempt is made, and a cycle that was
\* begun is completed whatever its queries answer.
C11_LoopSurvives ==
  /\ [](running => wpc \notin { "done", "halted" })
  /\ []<>(\/ wpc = "await_connect"
          \/ wpc = "await_sleep"
          \/ ~running
          \/ (cycle = MaxCycles /\ wpc = "loop_test"))

\* C11 witness: a sensor query raised in the first cycle, the diagnostic
\* query raised in the second, and the second cycle is completed.
C11_Witness ==
  /\ running
  /\ cycle = 2
  /\ wpc = "await_sleep"
  /\ dtcOut = Some(<< "raise" >>)
  /\ \E k \in GaugeKeys :
       /\ shown[k] # None
       /\ shown[k][1].cyc = 1
       /\ shown[k][1].out = << "raise" >>

\* a sensor or diagnostic query is with the executor
QueryInFlight == wpc \in { "await_query", "await_dtc" }

\* C12: at most one connection attempt is in flight; an attempt is started
\* only while the handle is null; and while the handle is null no query is
\* in flight, none is issued and nothing is put on the queue.
C12_ConnectDiscipline ==
  /\ [](attempts <= 1)
  /\ [][attempts' > attempts => connection = None]_vars
  /\ [](connection = None => ~QueryInFlight /\ update_queue = << >>)
  /\ [][connection = None => (enq' = enq /\ ~QueryInFlight')]_vars

\* C12 witness: an attempt failed, the loop backed off and a second attempt is
\* in flight, the handle still null and nothing put.
C12_Witness ==
  /\ attempts = 1
  /\ wpc = "await_connect"
  /\ status_var = "CONNECTION FAILED"
  /\ connection = None
  /\ enq = 0

\* C13: once the handle is set no failure of a query demotes the connection:
\* the handle stays what it is, the status stays CONNECTED, the loop is never
\* at a connection attempt or its backoff again, and no attempt is started.
C13_NeverDemoted ==
  /\ [][connection # None =>
         /\ connection' = connection
         /\ status_var' = status_var
         /\ attempts' = attempts]_vars
  /\ [](connection # None =>
         /\ status_var = "CONNECTED"
         /\ attempts = 0
         /\ wpc \notin { "await_connect", "await_backoff" })

\* C13 witness: in the first cycle one sensor query raised and another gave a
\* null reading, the diagnostic query raised (the two cycles put their gauge
\* items and nothing else), and the second cycle is under way on the same
\* handle.
C13_Witness ==
  /\ connection = Some("obd")
  /\ cycle = 2
  /\ wpc = "await_dtc"
  /\ enq = 2 * NumSensors
  /\ nApplied = NumSensors
  /\ \E x, y \in Polled :
       /\ shown[commands[x]] # None
       /\ shown[commands[y]] # None
       /\ shown[commands[x]][1] = [item |-> << "gauge", << commands[x], 0, FALSE >> >>,
                                   cyc |-> 1, out |-> << "raise" >>]
       /\ shown[commands[y]][1] = [item |-> << "gauge", << commands[y], 0, FALSE >> >>,
                                   cyc |-> 1, out |-> << "null" >>]

\* the polled positions of the table, in table order
TableOrder == [i \in 1..NumSensors |-> i]

\* item b was put right after item a: the next sensor of the same cycle, the
\* diagnostic item after the last sensor, or the first sensor of the next
\* cycle after the cycle's last item
PutNext(a, b) ==
  \/ a.cyc = b.cyc /\ a.idx \in 1..(NumSensors - 1) /\ b.idx = a.idx + 1
  \/ a.cyc = b.cyc /\ a.idx = NumSensors /\ b.idx = 0
  \/ b.cyc = a.cyc + 1 /\ a.idx \in { 0, NumSensors } /\ b.idx = 1

\* C14: a poll cycle puts one gauge item per polled sensor, in table order,
\* whatever each query answered, then makes one diagnostic query, whose item,
\* if it puts one, comes after the cycle's gauge items and before those of
\* the next cycle.  The table of commands is the 12 configured sensors in
\* the order of gauge_configs.
C14_CycleOrder ==
  /\ Len(commands) = 12
  /\ Len(gauge_configs) = 12
  /\ \A i \in 1..Len(commands) : commands[i] = gauge_configs[i][1]
  /\ wpc = "await_query" => emitted = SubSeq(TableOrder, 1, idx - 1) /\ dtcOut = None
  /\ wpc = "await_dtc" => emitted = TableOrder /\ dtcOut = None
  /\ wpc = "await_sleep" =>
       /\ dtcOut # None
       /\ emitted = IF dtcOut[1][1] = "raise" THEN TableOrder ELSE Append(TableOrder, 0)
  /\ wpc \notin { "await_query", "await_dtc", "await_sleep", "halted" } =>
       emitted = << >> /\ dtcOut = None
  /\ \A j \in 1..Len(update_queue) :
       /\ EmitOf(<< update_queue[j] >>) = << qghost[j].idx >>
       /\ j < Len(update_queue) => PutNext(qghost[j], qghost[j + 1])

\* C14 witness: the second cycle is completed after a cycle whose first
\* sensor failed; the queue holds its last gauge item and its diagnostic item.
C14_Witness ==
  /\ cycle = 2
  /\ wpc = "await_sleep"
  /\ emitted = Append(TableOrder, 0)
  /\ Len(update_queue) = 2
  /\ update_queue[1][1] = "gauge"
  /\ update_queue[2][1] = "dtc"
  /\ qghost[1].out # << "value", 55 >>
  /\ shown[commands[1]] # None
  /\ shown[commands[1]][1].out = << "raise" >>

\* C15: a diagnostic query that raises puts nothing and changes nothing on
\* screen.  The step of check_dtc that takes the exception leaves the queue,
\* the display and the gauges as they were; no queued or applied diagnostic
\* item comes from a query that raised; the display changes only when
\* process_updates applies a diagnostic item; and the cycle still put its
\* gauge items, one per polled sensor.
C15_DtcRaiseKeepsDisplay ==
  /\ [][dtcOut' = Some(<< "raise" >>) /\ dtcOut = None =>
         /\ update_queue' = update_queue
         /\ enq' = enq
         /\ dtc_var' = dtc_var
         /\ gauges' = gauges]_vars
  /\ [](\A j \in 1..Len(qghost) : qghost[j].idx = 0 => qghost[j].out # << "raise" >>)
  /\ [](shownDtc # None => shownDtc[1] # << "raise" >>)
  /\ [][dtc_var' # dtc_var =>
         /\ upc = "drain"
         /\ update_queue # << >>
         /\ update_queue[1][1] = "dtc"
         /\ nApplied' = nApplied + 1]_vars
  /\ [](dtcOut = Some(<< "raise" >>) /\ wpc = "await_sleep" => emitted = TableOrder)

\* C15 witness: the first cycle's codes are on the display, the second
\* cycle's diagnostic query raised, every item put was applied, and the
\* display still shows the first cycle's codes.
C15_Witness ==
  /\ cycle = 2
  /\ wpc = "await_sleep"
  /\ dtcOut = Some(<< "raise" >>)
  /\ update_queue = << >>
  /\ nApplied = 2 * NumSensors + 1
  /\ shownDtc = Some(<< "value", Some(<< P0171, P0300 >>) >>)
  /\ dtc_var = "P0171: System Too Lean | P0300: Random Misfire"

\* a step of process_updates
TickStep == upc' # upc \/ nApplied' # nApplied

\* C16: a tick never waits.  While it drains, taking an item or seeing the
\* queue empty is always possible; a step of the tick that sees the queue
\* empty applies nothing and returns; one that sees an item applies exactly
\* that item and goes on; the tick returns only on an empty queue, every item
\* put so far applied; and once it returned the timer can fire it again.
C16_TickDrains ==
  /\ [](upc = "drain" => ENABLED (GetNowait \/ QueueEmpty))
  /\ [][upc = "drain" /\ update_queue = << >> /\ TickStep =>
         /\ upc' = "idle"
         /\ nApplied' = nApplied
         /\ gauges' = gauges
         /\ dtc_var' = dtc_var]_vars
  /\ [][upc = "drain" /\ update_queue # << >> /\ TickStep =>
         /\ upc' = "drain"
         /\ nApplied' = nApplied + 1
         /\ update_queue' = Tail(update_queue)]_vars
  /\ [][upc = "drain" /\ upc' = "idle" =>
         /\ update_queue = << >>
         /\ nApplied = enq]_vars
  /\ [](upc = "idle" => ENABLED ProcessUpdatesBegin)

\* C16 witness: a tick that applied the items of a whole cycle has returned
\* on the empty queue, the worker being in its next cycle.
C16_Witness ==
  /\ upc = "idle"
  /\ update_queue = << >>
  /\ nApplied = NumSensors + 1
  /\ nApplied = enq
  /\ cycle = 2
  /\ wpc = "await_query"
  /\ idx = 1

\* C17: between two calls of toggle_color the theme is red or white, every
\* gauge and the status label wear the theme color, the diagnostic label is
\* yellow (neither theme color), and a step of process_updates leaves every
\* color as it was.
C17_ThemeUniform ==
  /\ [](color \in { "red", "white" })
  /\ [](\A k \in GaugeKeys : gauges[k].color = color)
  /\ [](status_fg = color)
  /\ [](dtc_fg = "yellow" /\ dtc_fg # color)
  /\ [][nApplied' # nApplied => Colors' = Colors]_vars

\* C17 witness: under the white theme process_updates has set a gauge
\* inactive, set another to a reading and updated the diagnostic display.
C17_Witness ==
  /\ color = "white"
  /\ consec = 0
  /\ dtc_var # ""
  /\ \E x, y \in GaugeKeys :
       /\ shown[x] # None /\ ~gauges[x].active
       /\ shown[y] # None /\ gauges[y].active /\ gauges[y].value = 55
       /\ gauges[x].color = "white"
       /\ gauges[y].color = "white"

\* a step of the worker that hands a sensor or diagnostic query to the executor
IssuesQuery == QueryInFlight' /\ (wpc' # wpc \/ idx' # idx)

\* C18 (as claimed): once stop() has closed the handle, the polling loop
\* issues no query on it.
C18_NoQueryOnClosed == [][closed => ~IssuesQuery]_vars

\* C19 (as claimed): once stop() has returned and the worker has come to
\* rest, no handle is left open: a handle that was set has been closed.
C19_NoHandleLeftOpen ==
  (upc = "quit" /\ Quiescent) => (connection # None => closed)

\* C20: every item put is applied, the timer being left to fire.  The keys
\* update_gauges puts are exactly the keys of self.gauges, so every queued
\* gauge item names a gauge and every queued item is of a kind
\* process_updates handles; again and again the queue is drained with every
\* item put so far applied, and the tick is back at its timer; and a valid
\* item applied to an inactive gauge makes it active with the item's value
\* (up to the gauge's maximum).
C20_EventsApplied ==
  /\ []({ commands[i] : i \in 1..Len(commands) } = DOMAIN gauges)
  /\ [](\A j \in 1..Len(update_queue) :
          \/ update_queue[j][1] = "gauge" /\ update_queue[j][2][1] \in DOMAIN gauges
          \/ update_queue[j][1] = "dtc")
  /\ []<>(update_queue = << >> /\ nApplied = enq /\ upc = "idle")
  /\ [][\A k \in GaugeKeys :
          (/\ nApplied' # nApplied
           /\ ~gauges[k].active
           /\ update_queue[1][1] = "gauge"
           /\ update_queue[1][2][1] = k
           /\ update_queue[1][2][3])
          => /\ gauges'[k].active
             /\ gauges'[k].value = Min(update_queue[1][2][2], gauges[k].max_value)
             /\ ValueText(gauges'[k]) # << "N/A" >>]_vars
  /\ [](revived => upc = "drain" /\ \E k \in GaugeKeys : shown[k] # None /\ gauges[k].active)

\* C20 witness: a gauge that a failed query of the first cycle had set
\* inactive shows the reading of the second cycle.
C20_Witness ==
  /\ revived
  /\ \E k \in GaugeKeys :
       /\ shown[k] # None
       /\ shown[k][1].cyc = 2
       /\ shown[k][1].out = << "value", 55 >>
       /\ gauges[k].active
       /\ gauges[k].value = 55
       /\ ValueText(gauges[k]) = << "number.1f", 55, gauges[k].unit >>

====
